---- MODULE Spec2Model ----
(***************************************************************************)
(* A model of hatch-protobuf's build hook (src/hatch_protobuf/plugin.py):  *)
(* the ProtocHook with its two operations, initialize (generate) and       *)
(* clean, the lazily resolved configuration, the discovery of .proto files *)
(* and the derivation of the output paths.                                 *)
(*                                                                         *)
(* A Python str is a sequence of tokens; "/" is always a token of its own, *)
(* and so are the two placeholders of an output template.  Text(s) is the  *)
(* string itself.  A pathlib path is the sequence of its parts.            *)
(***************************************************************************)
EXTENDS Naturals, Sequences, FiniteSets, TLC

(***************************************************************************)
(* Bounds of the model.                                                    *)
(***************************************************************************)
\* how many operations the history keeps
MaxHist == 3
\* how many options of the hook's configuration table are set at all
MaxSet == 2

(***************************************************************************)
(* Strings and paths.                                                      *)
(***************************************************************************)
RECURSIVE Text(_)
Text(s) == IF s = <<>> THEN "" ELSE Head(s) \o Text(Tail(s))

\* the parts of "a/b/c", before pathlib drops the empty ones and the dots
RECURSIVE Split(_, _)
Split(s, cur) ==
    IF s = <<>> THEN <<cur>>
    ELSE IF Head(s) = "/" THEN <<cur>> \o Split(Tail(s), "")
    ELSE Split(Tail(s), cur \o Head(s))

RECURSIVE DropDots(_)
DropDots(ps) ==
    IF ps = <<>> THEN <<>>
    ELSE IF Head(ps) \in {"", "."} THEN DropDots(Tail(ps))
    ELSE <<Head(ps)>> \o DropDots(Tail(ps))

\* pathlib.Path(str): an absolute path keeps "/" as its first part
Path(s) ==
    IF s # <<>> /\ Head(s) = "/"
    THEN <<"/">> \o DropDots(Split(s, ""))
    ELSE DropDots(Split(s, ""))

IsAbsolute(p) == p # <<>> /\ Head(p) = "/"

\* pathlib's p / q
Join(p, q) == IF IsAbsolute(q) THEN q ELSE p \o q

\* str(path), as tokens: "." for the path of no parts
RECURSIVE PathTokens(_)
PathTokens(p) ==
    IF p = <<>> THEN <<".">>
    ELSE IF Len(p) = 1 THEN <<Head(p)>>
    ELSE IF Head(p) = "/" THEN <<"/">> \o PathTokens(Tail(p))
    ELSE <<Head(p), "/">> \o PathTokens(Tail(p))

\* str(path) and path.as_posix()
PathStr(p) == Text(PathTokens(p))

Parent(p) == IF p = <<>> THEN <<>> ELSE SubSeq(p, 1, Len(p) - 1)

\* the stems of the .proto files of the model's file trees
Stems == {"hello", "world", "dep"}

\* the file name matches *.proto
IsProto(name) == \E s \in Stems : name = s \o ".proto"

\* path.stem, for a name that matches *.proto
Stem(name) == CHOOSE s \in Stems : name = s \o ".proto"

\* str.replace(old, new), old being one token
RECURSIVE Replace(_, _, _)
Replace(s, old, new) ==
    IF s = <<>> THEN <<>>
    ELSE IF Head(s) = old THEN new \o Replace(Tail(s), old, new)
    ELSE <<Head(s)>> \o Replace(Tail(s), old, new)

(***************************************************************************)
(* Configuration values: what self.config may hold under a key.            *)
(***************************************************************************)
Absent == [k |-> "absent", b |-> FALSE, s |-> <<>>, l |-> <<>>]
B(x) == [k |-> "bool", b |-> x, s |-> <<>>, l |-> <<>>]
S(x) == [k |-> "str", b |-> FALSE, s |-> x, l |-> <<>>]
L(x) == [k |-> "list", b |-> FALSE, s |-> <<>>, l |-> x]
\* a TOML integer: the wrong shape for every option
I == [k |-> "int", b |-> FALSE, s |-> <<>>, l |-> <<>>]
\* Python's None, the default of an optional string
None == [k |-> "none", b |-> FALSE, s |-> <<>>, l |-> <<>>]

\* the items of a list
ES(x) == [k |-> "str", s |-> x]
EI == [k |-> "int", s |-> <<>>]

\* an entry of the generators list: a table, or something else
T(n, o, p, pl, op) ==
    [k |-> "table", name |-> n, outputs |-> o, output_path |-> p,
     protoc_plugin |-> pl, options |-> op]
NotATable ==
    [k |-> "str", name |-> Absent, outputs |-> Absent, output_path |-> Absent,
     protoc_plugin |-> Absent, options |-> Absent]

Msg(name, shape) == "hatch-protobuf: " \o name \o shape

\* the _check_* functions: the message of the RuntimeError raised, "" for none
check_bool(name, v) ==
    IF v.k # "bool" THEN Msg(name, " must be true or false") ELSE ""

check_str(name, v) ==
    IF v.k # "str" THEN Msg(name, " must be a string") ELSE ""

check_str_opt(name, v) ==
    IF v.k = "none" THEN ""
    ELSE IF v.k # "str" THEN Msg(name, " must be a string") ELSE ""

check_list(name, v) ==
    IF v.k # "list" THEN Msg(name, " must be a list") ELSE ""

check_list_of_str(name, v) ==
    IF check_list(name, v) # "" THEN check_list(name, v)
    ELSE IF \E i \in 1..Len(v.l) : v.l[i].k # "str"
         THEN Msg(name, " must be a list of strings")
         ELSE ""

\* dict.get(key, default)
Get(v, default) == IF v.k = "absent" THEN default ELSE v

\* the strings of a checked list of strings
Strs(v) == [i \in 1..Len(v.l) |-> v.l[i].s]

\* the first error raised by a sequence of checks, "" when none raises
RECURSIVE FirstErr(_)
FirstErr(es) ==
    IF es = <<>> THEN ""
    ELSE IF Head(es) # "" THEN Head(es)
    ELSE FirstErr(Tail(es))

(***************************************************************************)
(* The project: its two normalized names, the files of its tree.  A file   *)
(* is the sequence of the parts of its path relative to the project root.  *)
(***************************************************************************)
\* normalize_file_name_component of metadata.core.raw_name and of .name
project_names == <<"Pkg", "pkg">>

is_file(fsys, p) == p \in fsys

RECURSIVE default_from(_, _)
default_from(fsys, names) ==
    IF names = <<>> THEN <<".">>
    ELSE IF is_file(fsys, <<Head(names), "__init__.py">>) THEN <<".">>
    ELSE IF is_file(fsys, <<"src", Head(names), "__init__.py">>) THEN <<"src">>
    ELSE default_from(fsys, Tail(names))

\* _default_proto_path with the root tried for every name before src is
default_proto_path_root_first(fsys) ==
    IF \E i \in 1..Len(project_names) :
          is_file(fsys, <<project_names[i], "__init__.py">>)
    THEN <<".">>
    ELSE IF \E i \in 1..Len(project_names) :
               is_file(fsys, <<"src", project_names[i], "__init__.py">>)
    THEN <<"src">>
    ELSE <<".">>

\* ProtocHook._default_proto_path
default_proto_path(fsys) == default_from(fsys, project_names)

\* proto_paths read with _get_list_conf: the items are not checked
proto_paths_list_only(c, fsys) ==
    LET v == Get(c.proto_paths, L(<<ES(default_proto_path(fsys))>>))
        e == check_list("proto_paths", v)
    IN  [err |-> e, val |-> IF e = "" THEN Strs(v) ELSE <<>>]

\* ProtocHook._proto_paths: [err, val]
proto_paths(c, fsys) ==
    LET v == Get(c.proto_paths, L(<<ES(default_proto_path(fsys))>>))
        e == check_list_of_str("proto_paths", v)
    IN  [err |-> e, val |-> IF e = "" THEN Strs(v) ELSE <<>>]

\* ProtocHook._library_paths: [err, val]
library_paths(c) ==
    LET v == Get(c.library_paths, L(<<>>))
        e == check_list_of_str("library_paths", v)
    IN  [err |-> e, val |-> IF e = "" THEN Strs(v) ELSE <<>>]

\* _get_bool_conf("import_site_packages", False): [err, val]
import_site_packages(c) ==
    LET v == Get(c.import_site_packages, B(FALSE))
        e == check_bool("import_site_packages", v)
    IN  [err |-> e, val |-> e = "" /\ v.b]

(***************************************************************************)
(* Generators.                                                             *)
(***************************************************************************)
Generator(n, o, p, pl, op) ==
    [name |-> n, outputs |-> o, output_path |-> p, protoc_plugin |-> pl,
     options |-> op]

PROTO_PATH == "{proto_path}"
PROTO_NAME == "{proto_name}"

python_generator(output_path) ==
    Generator(<<"python">>, <<<<PROTO_PATH, "/", PROTO_NAME, "_pb2.py">>>>,
              Path(output_path), None, <<>>)

pyi_generator(output_path) ==
    Generator(<<"pyi">>, <<<<PROTO_PATH, "/", PROTO_NAME, "_pb2.pyi">>>>,
              Path(output_path), None, <<>>)

grpc_generator(output_path) ==
    Generator(<<"grpc_python">>, <<<<PROTO_PATH, "/", PROTO_NAME, "_pb2_grpc.py">>>>,
              Path(output_path), None, <<>>)

\* what building the Generator of one entry of the generators list raises
custom_error(g, output_path) ==
    IF g.k # "table" THEN "TypeError: string indices must be integers"
    ELSE IF g.name.k = "absent" THEN "KeyError: 'name'"
    ELSE IF check_str("generators.name", g.name) # ""
         THEN check_str("generators.name", g.name)
    ELSE IF g.outputs.k = "absent" THEN "KeyError: 'outputs'"
    ELSE FirstErr(<<
        check_list_of_str("generators.outputs", g.outputs),
        check_str("generators.output_path", Get(g.output_path, S(output_path))),
        check_str_opt("generators.protoc_plugin", Get(g.protoc_plugin, None)),
        check_list_of_str("generators.options", Get(g.options, L(<<>>))) >>)

\* the Generator of one well-shaped entry
custom_generator(g, output_path) ==
    Generator(g.name.s, Strs(g.outputs),
              Path(Get(g.output_path, S(output_path)).s),
              Get(g.protoc_plugin, None),
              Strs(Get(g.options, L(<<>>))))

\* generators with the service-stub generator ahead of the interface-stub one
generators_grpc_first(c, fsys) ==
    LET opv == Get(c.output_path, S(default_proto_path(fsys)))
        pyi == Get(c.generate_pyi, B(TRUE))
        grpc == Get(c.generate_grpc, B(TRUE))
        gv == Get(c.generators, L(<<>>))
        e == FirstErr(<<check_str("output_path", opv),
                        check_bool("generate_pyi", pyi),
                        check_bool("generate_grpc", grpc),
                        check_list("generators", gv)>>
                      \o [i \in 1..Len(gv.l) |-> custom_error(gv.l[i], opv.s)])
    IN  [err |-> e,
         val |-> IF e # "" THEN <<>>
                 ELSE <<python_generator(opv.s)>>
                      \o (IF grpc.b THEN <<grpc_generator(opv.s)>> ELSE <<>>)
                      \o (IF pyi.b THEN <<pyi_generator(opv.s)>> ELSE <<>>)
                      \o [i \in 1..Len(gv.l) |-> custom_generator(gv.l[i], opv.s)]]

\* ProtocHook._generators: [err, val]
generators(c, fsys) ==
    LET opv == Get(c.output_path, S(default_proto_path(fsys)))
        pyi == Get(c.generate_pyi, B(TRUE))
        grpc == Get(c.generate_grpc, B(TRUE))
        gv == Get(c.generators, L(<<>>))
        e == FirstErr(<<check_str("output_path", opv),
                        check_bool("generate_pyi", pyi),
                        check_bool("generate_grpc", grpc),
                        check_list("generators", gv)>>
                      \o [i \in 1..Len(gv.l) |-> custom_error(gv.l[i], opv.s)])
    IN  [err |-> e,
         val |-> IF e # "" THEN <<>>
                 ELSE <<python_generator(opv.s)>>
                      \o (IF pyi.b THEN <<pyi_generator(opv.s)>> ELSE <<>>)
                      \o (IF grpc.b THEN <<grpc_generator(opv.s)>> ELSE <<>>)
                      \o [i \in 1..Len(gv.l) |-> custom_generator(gv.l[i], opv.s)]]

(***************************************************************************)
(* Files: the discovered inputs and the derived outputs.                   *)
(***************************************************************************)
IsUnder(dir, f) == Len(f) > Len(dir) /\ SubSeq(f, 1, Len(dir)) = dir

\* glob("*.proto"): the files of the directory itself only
Glob_shallow(fsys, dir) ==
    {f \in fsys : IsUnder(dir, f) /\ Len(f) = Len(dir) + 1 /\ IsProto(f[Len(f)])}

\* (root / path).glob("**/*.proto"), as a set
Glob(fsys, dir) == {f \in fsys : IsUnder(dir, f) /\ IsProto(f[Len(f)])}

\* the orders in which a walk may yield the files of a set
Orders(fset) ==
    {q \in [1..Cardinality(fset) -> fset] :
        \A i, j \in 1..Cardinality(fset) : q[i] = q[j] => i = j}

\* the walks of the search paths in order: sequences of [proto, base], the
\* file found (relative to the root) and the search path it was found under
RECURSIVE Walks(_, _)
Walks(fsys, paths) ==
    IF paths = <<>> THEN {<<>>}
    ELSE LET dir == Path(Head(paths))
         IN  {[i \in 1..Len(q) |-> [proto |-> q[i], base |-> dir]] \o rest :
                 q \in Orders(Glob(fsys, dir)), rest \in Walks(fsys, Tail(paths))}

\* proto.relative_to(abs_path)
relative_to(f, dir) == SubSeq(f, Len(dir) + 1, Len(f))

\* the (output, g.output_path) pairs of the generators, in order
RECURSIVE patterns(_)
patterns(gens) ==
    IF gens = <<>> THEN <<>>
    ELSE [i \in 1..Len(Head(gens).outputs) |->
            [pattern |-> Head(gens).outputs[i], output_path |-> Head(gens).output_path]]
         \o patterns(Tail(gens))

\* expand with the output joined part by part as written, nothing dropped
expand_unnormalized(pat, rel) ==
    LET proto_path == PathTokens(Parent(rel))
        proto_name == <<Stem(rel[Len(rel)])>>
        output == Replace(Replace(pat.pattern, PROTO_NAME, proto_name),
                          PROTO_PATH, proto_path)
    IN  pat.output_path \o Split(output, "")

\* one derived output: the pattern expanded for the input, under output_path
expand(pat, rel) ==
    LET proto_path == PathTokens(Parent(rel))
        proto_name == <<Stem(rel[Len(rel)])>>
        output == Replace(Replace(pat.pattern, PROTO_NAME, proto_name),
                          PROTO_PATH, proto_path)
    IN  Join(pat.output_path, Path(output))

\* derive with the loops exchanged: patterns outermost, inputs innermost
RECURSIVE derive_patterns_outer(_, _)
derive_patterns_outer(found, pats) ==
    IF pats = <<>> THEN <<>>
    ELSE [i \in 1..Len(found) |->
            expand(Head(pats), relative_to(found[i].proto, found[i].base))]
         \o derive_patterns_outer(found, Tail(pats))

\* the outputs of ProtocHook._files, from the walk and the generators
RECURSIVE derive(_, _)
derive(found, pats) ==
    IF found = <<>> THEN <<>>
    ELSE [i \in 1..Len(pats) |->
            expand(pats[i], relative_to(Head(found).proto, Head(found).base))]
         \o derive(Tail(found), pats)

(***************************************************************************)
(* The arguments of the compiler.                                          *)
(***************************************************************************)
PURELIB == "site-packages"

RECURSIVE path_args(_)
path_args(paths) ==
    IF paths = <<>> THEN <<>>
    ELSE <<"--proto_path", Text(Head(paths))>> \o path_args(Tail(paths))

has_plugin(g) == g.protoc_plugin.k = "str" /\ g.protoc_plugin.s # <<>>

RECURSIVE option_args(_, _)
option_args(name, opts) ==
    IF opts = <<>> THEN <<>>
    ELSE <<"--" \o Text(name) \o "_opt=" \o Text(Head(opts))>>
         \o option_args(name, Tail(opts))

\* generator_args with the _out flag ahead of the plugin registration
generator_args_out_first(g) ==
    <<"--" \o Text(g.name) \o "_out=" \o PathStr(g.output_path)>>
    \o (IF has_plugin(g)
        THEN <<"--plugin=protoc-gen-" \o Text(g.name) \o "=" \o Text(g.protoc_plugin.s)>>
        ELSE <<>>)
    \o option_args(g.name, g.options)

generator_args(g) ==
    (IF has_plugin(g)
     THEN <<"--plugin=protoc-gen-" \o Text(g.name) \o "=" \o Text(g.protoc_plugin.s)>>
     ELSE <<>>)
    \o <<"--" \o Text(g.name) \o "_out=" \o PathStr(g.output_path)>>
    \o option_args(g.name, g.options)

RECURSIVE generators_args(_)
generators_args(gens) ==
    IF gens = <<>> THEN <<>>
    ELSE generator_args(Head(gens)) \o generators_args(Tail(gens))

\* the args of initialize after [sys.executable, "-m", "grpc_tools.protoc"]
build_args(paths, libs, site, gens, ins) ==
    path_args(paths) \o path_args(libs)
    \o (IF site THEN <<"--proto_path", PURELIB>> ELSE <<>>)
    \o generators_args(gens)
    \o [i \in 1..Len(ins) |-> PathStr(ins[i])]

(***************************************************************************)
(* The configurations and the file trees the model starts from.            *)
(***************************************************************************)
PYI_TEMPLATE == <<PROTO_PATH, "/", PROTO_NAME, "_pb2.pyi">>
GRPC_PYI_TEMPLATE == <<PROTO_PATH, "/", PROTO_NAME, "_pb2_grpc.pyi">>
MD_TEMPLATE == <<PROTO_PATH, "/", PROTO_NAME, ".md">>
TXT_TEMPLATE == <<"docs", "/", PROTO_PATH, "_", PROTO_NAME, ".txt">>

\* the custom generator of test_custom_generator_with_options, with a plugin
MypyEntry ==
    T(S(<<"mypy">>), L(<<ES(PYI_TEMPLATE)>>), Absent,
      S(<<"bin", "/", "protoc-gen-mypy">>),
      L(<<ES(<<"foo=1">>), ES(<<"bar=two">>)>>))
\* a generator with two templates and an output_path of its own
DocEntry ==
    T(S(<<"doc">>), L(<<ES(MD_TEMPLATE), ES(TXT_TEMPLATE)>>), S(<<"gen">>),
      Absent, Absent)
MypyGrpcEntry ==
    T(S(<<"mypy_grpc">>), L(<<ES(GRPC_PYI_TEMPLATE)>>), Absent, Absent, Absent)

ProtoPathsValues ==
    {Absent,
     L(<<ES(<<"pkg">>)>>),
     L(<<ES(<<"pkg">>), ES(<<"pkg", "/", "sub">>)>>),
     L(<<ES(<<"pkg">>), ES(<<"pkg">>)>>),
     S(<<"pkg">>),
     L(<<ES(<<"pkg">>), EI>>)}
LibraryPathsValues ==
    {Absent, L(<<ES(<<"libs">>), ES(<<"pkg", "/", "sub">>)>>), S(<<"libs">>)}
OutputPathValues == {Absent, S(<<"out">>), I}
BoolValues(b) == {Absent, B(b), S(<<"no">>)}
GeneratorsValues ==
    {Absent,
     L(<<MypyEntry>>),
     L(<<DocEntry, MypyGrpcEntry>>),
     S(<<"mypy">>),
     L(<<NotATable>>),
     L(<<[MypyEntry EXCEPT !.name = I]>>),
     L(<<[MypyEntry EXCEPT !.outputs = S(PYI_TEMPLATE)]>>),
     L(<<[MypyEntry EXCEPT !.output_path = I]>>),
     L(<<[MypyEntry EXCEPT !.protoc_plugin = I]>>),
     L(<<[MypyEntry EXCEPT !.options = L(<<ES(<<"foo=1">>), EI>>)]>>)}

Options ==
    {"proto_paths", "library_paths", "output_path", "generate_pyi",
     "generate_grpc", "import_site_packages", "generators"}

\* the keys present in the configuration table
KeysSet(c) == {o \in Options : c[o].k # "absent"}

Configs ==
    {c \in [proto_paths : ProtoPathsValues,
            library_paths : LibraryPathsValues,
            output_path : OutputPathValues,
            generate_pyi : BoolValues(FALSE),
            generate_grpc : BoolValues(FALSE),
            import_site_packages : BoolValues(TRUE),
            generators : GeneratorsValues] :
        Cardinality(KeysSet(c)) <= MaxSet}

\* a project with its package at the root, one with it under src, an empty one
RootTree ==
    {<<"pkg", "__init__.py">>, <<"pkg", "hello.proto">>,
     <<"pkg", "sub", "world.proto">>, <<"libs", "dep.proto">>}
SrcTree == {<<"src", "pkg", "__init__.py">>, <<"src", "pkg", "hello.proto">>}
Trees == {RootTree, SrcTree, {}}

\* what build_data["artifacts"] may hold when the hook is called
HostArtifacts == {<<"README.md">>}

(***************************************************************************)
(* The state.                                                              *)
(***************************************************************************)
VARIABLES
    config,     \* self.config, the hook's table of pyproject.toml
    fs,         \* the files under the project root
    pc,         \* where the running operation is; "idle" between operations
    op,         \* the running operation: "generate" or "clean"
    paths,      \* the cached _proto_paths
    found,      \* the walk of _files: inputs and the search path of each
    gens,       \* the cached _generators
    outputs,    \* _files.outputs
    args,       \* the arguments after the compiler command
    artifacts,  \* build_data["artifacts"]
    artifacts0, \* build_data["artifacts"] when the operation started
    error,      \* the exception that ended the operation, "" for none
    runs,       \* child processes started by the running operation
    exitcode,   \* how the last of them exited: "none", "zero", "nonzero"
    walked,     \* search paths walked by the running operation
    deleted,    \* the paths the running operation has unlinked
    fs0,        \* the files when the running operation started
    reported,   \* the artifacts the last successful generate reported
    hist        \* the operations finished since the last successful generate,
                \* that generate first, while all of them succeeded

vars ==
    <<config, fs, pc, op, paths, found, gens, outputs, args, artifacts,
      artifacts0, error, runs, exitcode, walked, deleted, fs0, reported, hist>>

cache == <<paths, found, gens, outputs, args>>
effects == <<runs, exitcode, walked, deleted>>

Range(q) == {q[i] : i \in 1..Len(q)}

inputs == [i \in 1..Len(found) |-> found[i].proto]
rel_inputs == [i \in 1..Len(found) |-> relative_to(found[i].proto, found[i].base)]

Init ==
    /\ config \in Configs
    /\ fs \in Trees
    /\ pc = "idle"
    /\ op = "none"
    /\ paths = <<>>
    /\ found = <<>>
    /\ gens = <<>>
    /\ outputs = <<>>
    /\ args = <<>>
    /\ artifacts = <<>>
    /\ artifacts0 = <<>>
    /\ error = ""
    /\ runs = 0
    /\ exitcode = "none"
    /\ walked = <<>>
    /\ deleted = {}
    /\ fs0 = fs
    /\ reported = {}
    /\ hist = <<>>

\* the host builds a hook and calls initialize or clean on it
Start(o, a) ==
    /\ pc = "idle"
    /\ op' = o
    /\ pc' = "proto_paths"
    /\ artifacts' = a
    /\ artifacts0' = a
    /\ fs0' = fs
    /\ UNCHANGED <<config, fs, cache, error, effects, reported, hist>>

\* _files reads self._proto_paths
ResolveProtoPaths ==
    /\ pc = "proto_paths"
    /\ LET r == proto_paths(config, fs)
       IN  /\ error' = r.err
           /\ paths' = r.val
           /\ pc' = IF r.err = "" THEN "walk" ELSE "done"
    /\ UNCHANGED <<config, fs, op, found, gens, outputs, args, artifacts,
                   artifacts0, effects, fs0, reported, hist>>

\* Walk over the library paths as well
Walk_with_libraries ==
    /\ pc = "walk"
    /\ \E w \in Walks(fs, paths \o library_paths(config).val) : found' = w
    /\ walked' = paths
    /\ pc' = "generators"
    /\ UNCHANGED <<config, fs, op, paths, gens, outputs, args, artifacts,
                   artifacts0, error, runs, exitcode, deleted, fs0, reported,
                   hist>>

\* _files globs every search path
Walk ==
    /\ pc = "walk"
    /\ \E w \in Walks(fs, paths) : found' = w
    /\ walked' = paths
    /\ pc' = "generators"
    /\ UNCHANGED <<config, fs, op, paths, gens, outputs, args, artifacts,
                   artifacts0, error, runs, exitcode, deleted, fs0, reported,
                   hist>>

\* _files reads self._generators and derives the outputs
ResolveGenerators ==
    /\ pc = "generators"
    /\ LET r == generators(config, fs)
       IN  /\ error' = r.err
           /\ gens' = r.val
           /\ outputs' = IF r.err = "" THEN derive(found, patterns(r.val)) ELSE <<>>
           /\ pc' = IF r.err = "" THEN "files" ELSE "done"
    /\ UNCHANGED <<config, fs, op, paths, found, args, artifacts,
                   artifacts0, effects, fs0, reported, hist>>

\* NothingToDo without the early return of initialize
NothingToDo_falls_through ==
    /\ pc = "files"
    /\ outputs = <<>>
    /\ pc' = IF op = "generate" THEN "run" ELSE "done"
    /\ UNCHANGED <<config, fs, op, cache, artifacts, artifacts0, error,
                   effects, fs0, reported, hist>>

\* initialize and clean: nothing to do
NothingToDo ==
    /\ pc = "files"
    /\ outputs = <<>>
    /\ pc' = "done"
    /\ UNCHANGED <<config, fs, op, cache, artifacts, artifacts0, error,
                   effects, fs0, reported, hist>>

\* initialize builds the arguments
BuildArgs ==
    /\ pc = "files"
    /\ op = "generate"
    /\ outputs # <<>>
    /\ LET libs == library_paths(config)
           site == import_site_packages(config)
           e == FirstErr(<<libs.err, site.err>>)
       IN  /\ error' = e
           /\ args' = IF e = "" THEN build_args(paths, libs.val, site.val, gens, inputs)
                      ELSE <<>>
           /\ pc' = IF e = "" THEN "run" ELSE "done"
    /\ UNCHANGED <<config, fs, op, paths, found, gens, outputs, artifacts,
                   artifacts0, effects, fs0, reported, hist>>

\* what the compiler may write: every derived output, or all but the last
Written == {Range(outputs), Range(SubSeq(outputs, 1, Len(outputs) - 1))}

\* initialize runs the compiler, which exits 0, and reports the artifacts
RunCompilerOk ==
    /\ pc = "run"
    /\ runs' = runs + 1
    /\ exitcode' = "zero"
    /\ \E w \in Written : fs' = fs \cup w
    /\ artifacts' = artifacts \o [i \in 1..Len(outputs) |-> PathStr(outputs[i])]
    /\ reported' = {PathStr(outputs[i]) : i \in 1..Len(outputs)}
    /\ hist' = <<>>
    /\ pc' = "done"
    /\ UNCHANGED <<config, op, cache, artifacts0, error, walked, deleted, fs0>>

\* RunCompilerFails without check=True: the exit status is ignored
RunCompilerFails_unchecked ==
    /\ pc = "run"
    /\ runs' = runs + 1
    /\ exitcode' = "nonzero"
    /\ artifacts' = artifacts \o [i \in 1..Len(outputs) |-> PathStr(outputs[i])]
    /\ reported' = {PathStr(outputs[i]) : i \in 1..Len(outputs)}
    /\ hist' = <<>>
    /\ pc' = "done"
    /\ UNCHANGED <<config, fs, op, cache, artifacts0, error, walked, deleted, fs0>>

\* initialize runs the compiler, which exits non-zero
RunCompilerFails ==
    /\ pc = "run"
    /\ runs' = runs + 1
    /\ exitcode' = "nonzero"
    /\ error' = "CalledProcessError"
    /\ pc' = "done"
    /\ UNCHANGED <<config, fs, op, cache, artifacts, artifacts0, walked,
                   deleted, fs0, reported, hist>>

\* Unlink without missing_ok: the first missing output raises
Unlink_strict ==
    /\ pc = "files"
    /\ op = "clean"
    /\ outputs # <<>>
    /\ LET missing == {i \in 1..Len(outputs) : outputs[i] \notin fs}
           first == IF missing = {} THEN Len(outputs) + 1
                    ELSE CHOOSE i \in missing : \A j \in missing : i <= j
           gone == Range(SubSeq(outputs, 1, first - 1))
       IN  /\ fs' = fs \ gone
           /\ deleted' = fs \cap gone
           /\ error' = IF missing = {} THEN "" ELSE "FileNotFoundError"
    /\ pc' = "done"
    /\ UNCHANGED <<config, op, cache, artifacts, artifacts0, runs, exitcode,
                   walked, fs0, reported, hist>>

\* clean unlinks every output, missing_ok
Unlink ==
    /\ pc = "files"
    /\ op = "clean"
    /\ outputs # <<>>
    /\ fs' = fs \ Range(outputs)
    /\ deleted' = fs \cap Range(outputs)
    /\ pc' = "done"
    /\ UNCHANGED <<config, op, cache, artifacts, artifacts0, error, runs,
                   exitcode, walked, fs0, reported, hist>>

\* the operation returns or raises; the hook and its caches are dropped
Finish ==
    /\ pc = "done"
    /\ pc' = "idle"
    /\ hist' = IF error # "" THEN <<>>
               ELSE IF op = "generate" /\ runs > 0 THEN <<"generate">>
               ELSE IF op = "clean" /\ hist # <<>> /\ Len(hist) < MaxHist
                    THEN Append(hist, "clean")
               ELSE <<>>
    /\ op' = "none"
    /\ paths' = <<>>
    /\ found' = <<>>
    /\ gens' = <<>>
    /\ outputs' = <<>>
    /\ args' = <<>>
    /\ artifacts' = <<>>
    /\ artifacts0' = <<>>
    /\ error' = ""
    /\ runs' = 0
    /\ exitcode' = "none"
    /\ walked' = <<>>
    /\ deleted' = {}
    /\ fs0' = fs
    /\ UNCHANGED <<config, fs, reported>>

Next ==
    \/ \E o \in {"generate", "clean"}, a \in HostArtifacts : Start(o, a)
    \/ ResolveProtoPaths
    \/ Walk
    \/ ResolveGenerators
    \/ NothingToDo
    \/ BuildArgs
    \/ RunCompilerOk
    \/ RunCompilerFails
    \/ Unlink
    \/ Finish

Spec == Init /\ [][Next]_vars

(***************************************************************************)
(* The hook under the layouts a project may have, proto_paths and          *)
(* output_path left to their inferred default.                             *)
(***************************************************************************)
\* the package at the root and under src, under the same name
BothTree ==
    {<<"pkg", "__init__.py">>, <<"pkg", "hello.proto">>,
     <<"src", "pkg", "__init__.py">>, <<"src", "pkg", "hello.proto">>}
\* a package of the raw name under src, one of the normalized name at the root
CrossTree ==
    {<<"src", "Pkg", "__init__.py">>, <<"src", "Pkg", "hello.proto">>,
     <<"pkg", "__init__.py">>, <<"pkg", "hello.proto">>}
\* a directory of the project's name at the root without __init__.py
NoInitTree ==
    {<<"pkg", "hello.proto">>,
     <<"src", "pkg", "__init__.py">>, <<"src", "pkg", "hello.proto">>}
LayoutTrees == {RootTree, SrcTree, BothTree, CrossTree, NoInitTree, {}}

InitLayout ==
    /\ config \in {c \in Configs : {"proto_paths", "output_path"} \cap KeysSet(c) = {}}
    /\ fs \in LayoutTrees
    /\ pc = "idle"
    /\ op = "none"
    /\ paths = <<>>
    /\ found = <<>>
    /\ gens = <<>>
    /\ outputs = <<>>
    /\ args = <<>>
    /\ artifacts = <<>>
    /\ artifacts0 = <<>>
    /\ error = ""
    /\ runs = 0
    /\ exitcode = "none"
    /\ walked = <<>>
    /\ deleted = {}
    /\ fs0 = fs
    /\ reported = {}
    /\ hist = <<>>

SpecLayout == InitLayout /\ [][Next]_vars

(***************************************************************************)
(* Properties.                                                             *)
(***************************************************************************)
\* the options of the configuration as the specification reads them
LibraryPathsOf(c) == IF c.library_paths.k = "list" THEN c.library_paths.l ELSE <<>>
SitePackagesOf(c) == c.import_site_packages.k = "bool" /\ c.import_site_packages.b

C1_Pairs(n, at(_)) ==
    [i \in 1..(2 * n) |-> IF i % 2 = 1 THEN "--proto_path" ELSE at(i \div 2)]

C1_Plugin(g) == IF g.protoc_plugin.k = "str" /\ Text(g.protoc_plugin.s) # "" THEN 1 ELSE 0

C1_Flags(g) ==
    [i \in 1..(C1_Plugin(g) + 1 + Len(g.options)) |->
        IF i <= C1_Plugin(g)
        THEN "--plugin=protoc-gen-" \o Text(g.name) \o "=" \o Text(g.protoc_plugin.s)
        ELSE IF i = C1_Plugin(g) + 1
        THEN "--" \o Text(g.name) \o "_out=" \o PathStr(g.output_path)
        ELSE "--" \o Text(g.name) \o "_opt=" \o Text(g.options[i - C1_Plugin(g) - 1])]

RECURSIVE C1_AllFlags(_, _)
C1_AllFlags(gs, n) ==
    IF n = 0 THEN <<>> ELSE C1_AllFlags(gs, n - 1) \o C1_Flags(gs[n])

C1_Expected ==
    C1_Pairs(Len(paths), LAMBDA i : Text(paths[i]))
    \o C1_Pairs(Len(LibraryPathsOf(config)),
                LAMBDA i : Text(LibraryPathsOf(config)[i].s))
    \o (IF SitePackagesOf(config) THEN <<"--proto_path", PURELIB>> ELSE <<>>)
    \o C1_AllFlags(gens, Len(gens))
    \o [i \in 1..Len(found) |-> PathStr(found[i].proto)]

\* C1: the arguments handed to the compiler are exactly the --proto_path
\* pairs of proto_paths, then those of library_paths, then the site-packages
\* pair iff import_site_packages, then per generator in order its plugin flag
\* (iff it has a plugin), its _out flag and its _opt flags in order, then the
\* root-relative inputs in discovery order; and a generator's plugin flag is
\* immediately followed by its own _out flag.
C1_ArgsExact ==
    (pc = "run" \/ runs > 0) =>
        /\ args = C1_Expected
        /\ \A n \in 1..Len(gens) :
              C1_Plugin(gens[n]) = 1 =>
                 \E i \in 1..(Len(args) - 1) :
                    /\ args[i] = C1_Flags(gens[n])[1]
                    /\ args[i + 1] = "--" \o Text(gens[n].name) \o "_out="
                                     \o PathStr(gens[n].output_path)

\* a compiler run with a library path, a plugin and two options
C1_Witness ==
    /\ pc = "run"
    /\ Len(LibraryPathsOf(config)) = 2
    /\ \E n \in 1..Len(gens) : C1_Plugin(gens[n]) = 1 /\ Len(gens[n].options) = 2
    /\ Len(found) >= 2

\* the total number of templates of the generators
RECURSIVE C2_Templates(_, _)
C2_Templates(gs, n) ==
    IF n = 0 THEN 0 ELSE C2_Templates(gs, n - 1) + Len(gs[n].outputs)

\* a template with both placeholders substituted at once
RECURSIVE C2_Subst(_, _, _)
C2_Subst(tpl, name, dir) ==
    IF tpl = <<>> THEN <<>>
    ELSE (IF Head(tpl) = PROTO_NAME THEN <<name>>
          ELSE IF Head(tpl) = PROTO_PATH THEN dir
          ELSE <<Head(tpl)>>)
         \o C2_Subst(Tail(tpl), name, dir)

\* the input's identity relative to its search path
C2_Rel(i) == SubSeq(found[i].proto, Len(found[i].base) + 1, Len(found[i].proto))

\* C2: the derived outputs are the cross product inputs x generators x
\* templates, inputs outermost, generators in declaration order, templates
\* innermost; the entry of (input i, generator g, template t) is the template
\* with {proto_name} replaced by the stem and {proto_path} by the parent of
\* the search-path-relative input, under the generator's own output_path; so
\* there are (inputs) x (templates of all generators) outputs.
C2_CrossProduct ==
    pc \in {"files", "run"} =>
        LET nt == C2_Templates(gens, Len(gens))
        IN  /\ Len(outputs) = Len(found) * nt
            /\ \A i \in 1..Len(found), g \in 1..Len(gens) :
                  \A k \in 1..Len(gens[g].outputs) :
                     outputs[(i - 1) * nt + C2_Templates(gens, g - 1) + k]
                        = gens[g].output_path
                          \o Path(C2_Subst(gens[g].outputs[k],
                                           Stem(C2_Rel(i)[Len(C2_Rel(i))]),
                                           PathTokens(Parent(C2_Rel(i)))))

\* two inputs, five generators, one of them with two templates and an
\* output_path of its own
C2_Witness ==
    /\ pc = "files"
    /\ Len(found) >= 2
    /\ Len(gens) = 5
    /\ \E g \in 1..Len(gens) :
          Len(gens[g].outputs) = 2 /\ gens[g].output_path # gens[1].output_path
    /\ Len(outputs) = 12

\* f lies below the directory d
Lies(f, d) == Len(f) > Len(d) /\ \A i \in 1..Len(d) : f[i] = d[i]

ListOfStr(v) == v.k = "list" /\ \A i \in 1..Len(v.l) : v.l[i].k = "str"

\* an entry of generators of the documented shape
EntryShape(g) ==
    /\ g.k = "table"
    /\ g.name.k = "str"
    /\ ListOfStr(g.outputs)
    /\ g.output_path.k \in {"absent", "str"}
    /\ g.protoc_plugin.k \in {"absent", "str"}
    /\ g.options.k = "absent" \/ ListOfStr(g.options)

\* the options of c whose value has the wrong shape
WrongShape(c) ==
    {o \in KeysSet(c) :
        \/ o \in {"proto_paths", "library_paths"} /\ ~ListOfStr(c[o])
        \/ o = "output_path" /\ c[o].k # "str"
        \/ o \in {"generate_pyi", "generate_grpc", "import_site_packages"}
           /\ c[o].k # "bool"
        \/ o = "generators"
           /\ ~(c[o].k = "list" /\ \A i \in 1..Len(c[o].l) : EntryShape(c[o].l[i]))}

\* no .proto file lies under a search path of the running operation
NoProto ==
    \A i \in 1..Len(paths) :
        ~\E f \in fs0 : Lies(f, Path(paths[i])) /\ IsProto(f[Len(f)])

\* C3: when no .proto file lies under any search path, the operation starts
\* no child process, leaves the host's artifact list as it was and deletes
\* nothing; under a well-shaped configuration it succeeds.
C3_NothingDiscovered ==
    NoProto =>
        /\ runs = 0
        /\ artifacts = artifacts0
        /\ deleted = {}
        /\ fs = fs0
        /\ (pc = "done" /\ WrongShape(config) = {}) => error = ""

\* a generate that walked a tree with .proto files elsewhere and found none
C3_Witness ==
    /\ pc = "done"
    /\ op = "generate"
    /\ walked # <<>>
    /\ NoProto
    /\ \E f \in fs : IsProto(f[Len(f)])
    /\ WrongShape(config) = {}
    /\ error = ""

\* C4: when the compiler exits non-zero the operation fails there, the
\* compiler has been started exactly once, and the host's artifact list is
\* what it was before the operation.
C4_CompilerFailure ==
    exitcode = "nonzero" =>
        /\ pc = "done"
        /\ error # ""
        /\ runs = 1
        /\ artifacts = artifacts0

\* a failed compiler run that had outputs to report
C4_Witness ==
    /\ exitcode = "nonzero"
    /\ outputs # <<>>
    /\ artifacts0 # <<>>

\* C5: the clean after a successful generate succeeds and removes exactly
\* the files whose paths that generate reported; the clean after that one
\* succeeds and changes nothing.
C5_RoundTrip ==
    (pc = "done" /\ op = "clean") =>
        /\ hist = <<"generate">> =>
              /\ error = ""
              /\ \A f \in fs : PathStr(f) \notin reported
              /\ \A f \in fs0 \ fs : PathStr(f) \in reported
              /\ fs \subseteq fs0
        /\ Len(hist) >= 2 =>
              /\ error = ""
              /\ fs = fs0
              /\ deleted = {}

\* the second clean after a generate that reported artifacts
C5_Witness ==
    /\ pc = "done"
    /\ op = "clean"
    /\ hist = <<"generate", "clean">>
    /\ reported # {}
    /\ outputs # <<>>

\* the messages that name option o and the shape expected of it
Messages(o) ==
    IF o \in {"proto_paths", "library_paths"}
    THEN {Msg(o, " must be a list"), Msg(o, " must be a list of strings")}
    ELSE IF o = "output_path" THEN {Msg(o, " must be a string")}
    ELSE IF o = "generators"
    THEN {Msg(o, " must be a list"),
          Msg("generators.name", " must be a string"),
          Msg("generators.outputs", " must be a list"),
          Msg("generators.outputs", " must be a list of strings"),
          Msg("generators.output_path", " must be a string"),
          Msg("generators.protoc_plugin", " must be a string"),
          Msg("generators.options", " must be a list"),
          Msg("generators.options", " must be a list of strings")}
    ELSE {Msg(o, " must be true or false")}

\* C6: an operation run with a wrong-shape value for a recognized option (or
\* for a field of a custom generator entry) ends with a configuration error
\* whose message names such an option and the shape expected, having started
\* no compiler and reported no artifact.
C6_ShapeErrors ==
    (pc = "done" /\ WrongShape(config) # {}) =>
        /\ \E o \in WrongShape(config) : error \in Messages(o)
        /\ runs = 0
        /\ artifacts = artifacts0

\* the options that _files resolves, for generate and for clean alike
ResolvedByFiles ==
    {"proto_paths", "output_path", "generate_pyi", "generate_grpc", "generators"}

\* C7 as stated: no search path is walked, no file deleted and no compiler
\* started while an option holds a wrong-shape value that was not reported.
C7_BeforeAnyWork ==
    (walked # <<>> \/ deleted # {} \/ runs > 0) =>
        (WrongShape(config) = {} \/ error # "")

\* C7, amended: a wrong-shape proto_paths ends the operation before any
\* search path is walked; a wrong-shape output_path, generate_pyi,
\* generate_grpc or generators ends it before any file is deleted and before
\* the compiler is started (the walk has happened by then); the compiler is
\* started only under a configuration with no wrong-shape option at all.
C7_BeforeUse ==
    /\ walked # <<>> => "proto_paths" \notin WrongShape(config)
    /\ (deleted # {} \/ pc = "run" \/ runs > 0) =>
          WrongShape(config) \cap ResolvedByFiles = {}
    /\ (pc = "run" \/ runs > 0) => WrongShape(config) = {}
    /\ (pc = "done" /\ WrongShape(config) \cap ResolvedByFiles # {}) => error # ""

\* an operation that walked, found inputs and then reported generate_pyi
C7_Witness ==
    /\ pc = "done"
    /\ walked # <<>>
    /\ found # <<>>
    /\ "generate_pyi" \in WrongShape(config)
    /\ error = Msg("generate_pyi", " must be true or false")

\* C8 as stated: no file appears more than once in the discovered inputs.
C8_NoDuplicates ==
    \A i, j \in 1..Len(found) : found[i].proto = found[j].proto => i = j

\* C8, amended: a .proto file appears in the discovered inputs once for every
\* entry of proto_paths it lies under (so twice under a repeated or a nested
\* search path), a file that is no .proto never, and nothing else appears.
C8_OncePerSearchPath ==
    pc \in {"generators", "files", "run"} =>
        /\ \A f \in fs0 :
              Cardinality({i \in 1..Len(found) : found[i].proto = f})
                 = IF IsProto(f[Len(f)])
                   THEN Cardinality({j \in 1..Len(paths) : Lies(f, Path(paths[j]))})
                   ELSE 0
        /\ \A i \in 1..Len(found) : found[i].proto \in fs0

\* a walk that found the same file twice
C8_Witness ==
    /\ pc = "generators"
    /\ \E i, j \in 1..Len(found) : i < j /\ found[i].proto = found[j].proto

\* f lies under a library path of the configuration
UnderLibrary(f) ==
    \E j \in 1..Len(LibraryPathsOf(config)) :
        Lies(f, Path(LibraryPathsOf(config)[j].s))

\* C9 as stated: no file under a library path is among the discovered inputs.
C9_LibrariesNeverInputs ==
    ListOfStr(config.library_paths) =>
        \A i \in 1..Len(found) : ~UnderLibrary(found[i].proto)

\* C9, amended: library paths are never walked: a file under a library path
\* is among the discovered inputs iff it is a .proto file that also lies
\* under an entry of proto_paths.
C9_LibrariesNotWalked ==
    (pc \in {"generators", "files", "run"} /\ ListOfStr(config.library_paths)) =>
        \A f \in fs0 :
            UnderLibrary(f) =>
                ((\E i \in 1..Len(found) : found[i].proto = f)
                   <=> (IsProto(f[Len(f)])
                        /\ \E j \in 1..Len(paths) : Lies(f, Path(paths[j]))))

\* a compiler run with one file under a library path among the inputs and
\* another one not
C9_Witness ==
    /\ pc = "run"
    /\ \E i \in 1..Len(found) : UnderLibrary(found[i].proto)
    /\ \E f \in fs0 :
          /\ UnderLibrary(f)
          /\ IsProto(f[Len(f)])
          /\ \A i \in 1..Len(found) : found[i].proto # f

\* the top-level output_path
C10_Top ==
    IF config.output_path.k = "str" THEN config.output_path.s
    ELSE default_proto_path(fs0)

C10_Custom ==
    IF config.generators.k = "list" THEN config.generators.l ELSE <<>>

C10_BuiltIn(n, suffix) ==
    [name |-> <<n>>, outputs |-> <<<<PROTO_PATH, "/", PROTO_NAME, suffix>>>>,
     output_path |-> Path(C10_Top)]

\* name, templates and output_path of the generators the claim describes
C10_Expected ==
    <<C10_BuiltIn("python", "_pb2.py")>>
    \o (IF config.generate_pyi = B(FALSE) THEN <<>>
        ELSE <<C10_BuiltIn("pyi", "_pb2.pyi")>>)
    \o (IF config.generate_grpc = B(FALSE) THEN <<>>
        ELSE <<C10_BuiltIn("grpc_python", "_pb2_grpc.py")>>)
    \o [i \in 1..Len(C10_Custom) |->
          [name |-> C10_Custom[i].name.s,
           outputs |-> [k \in 1..Len(C10_Custom[i].outputs.l) |->
                          C10_Custom[i].outputs.l[k].s],
           output_path |-> Path(IF C10_Custom[i].output_path.k = "str"
                                THEN C10_Custom[i].output_path.s
                                ELSE C10_Top)]]

\* the items of q, those at the positions drop left out
RECURSIVE C10_Without(_, _, _)
C10_Without(q, drop, n) ==
    IF n = 0 THEN <<>>
    ELSE C10_Without(q, drop, n - 1) \o (IF n \in drop THEN <<>> ELSE <<q[n]>>)

\* the positions in outputs of the outputs of generator g
C10_OutputsOf(g) ==
    LET nt == C2_Templates(gens, Len(gens))
    IN  {(i - 1) * nt + C2_Templates(gens, g - 1) + k :
            i \in 1..Len(found), k \in 1..Len(gens[g].outputs)}

\* the position in args of the flags of generator g
C10_FlagsOf(g) ==
    LET before == 2 * Len(paths) + 2 * Len(LibraryPathsOf(config))
                  + (IF SitePackagesOf(config) THEN 2 ELSE 0)
                  + Len(C1_AllFlags(gens, g - 1))
    IN  {before + k : k \in 1..Len(C1_Flags(gens[g]))}

\* turning flag o off removes generator g, its outputs and its flags only
C10_TurnedOff(o, g) ==
    LET off == [config EXCEPT ![o] = B(FALSE)]
        offgens == generators(off, fs0).val
    IN  /\ offgens = C10_Without(gens, {g}, Len(gens))
        /\ derive(found, patterns(offgens))
              = C10_Without(outputs, C10_OutputsOf(g), Len(outputs))
        /\ build_args(paths, library_paths(off).val, import_site_packages(off).val,
                      offgens, inputs)
              = C10_Without(args, C10_FlagsOf(g), Len(args))

\* C10: the resolved generators are python, then pyi iff generate_pyi, then
\* grpc_python iff generate_grpc, then the custom generators in declaration
\* order, each with output_path defaulting to the top-level one; with both
\* flags off and no custom generator the outputs of x.proto are x_pb2.py
\* only; turning a flag off removes that generator's outputs and flags only.
C10_GeneratorList ==
    pc = "run" =>
        /\ [g \in 1..Len(gens) |->
              [name |-> gens[g].name, outputs |-> gens[g].outputs,
               output_path |-> gens[g].output_path]] = C10_Expected
        /\ (config.generate_pyi = B(FALSE) /\ config.generate_grpc = B(FALSE)
            /\ C10_Custom = <<>>) =>
              outputs = [i \in 1..Len(found) |->
                           Path(C10_Top) \o Parent(C2_Rel(i))
                           \o <<Stem(C2_Rel(i)[Len(C2_Rel(i))]) \o "_pb2.py">>]
        /\ config.generate_pyi = Absent => C10_TurnedOff("generate_pyi", 2)
        /\ config.generate_grpc = Absent =>
              C10_TurnedOff("generate_grpc",
                            IF config.generate_pyi = B(FALSE) THEN 2 ELSE 3)

\* a compiler run with both flags off and no custom generator
C10_Witness ==
    /\ pc = "run"
    /\ config.generate_pyi = B(FALSE)
    /\ config.generate_grpc = B(FALSE)
    /\ C10_Custom = <<>>
    /\ Len(gens) = 1
    /\ outputs # <<>>

\* a package named n is present at the root, under src
AtRoot(n) == <<n, "__init__.py">> \in fs0
UnderSrc(n) == <<"src", n, "__init__.py">> \in fs0

\* the inferred path as C11 states it: the root wins whenever a package of
\* the project's name is there
C11_RootWins ==
    IF AtRoot("Pkg") \/ AtRoot("pkg") THEN "."
    ELSE IF UnderSrc("Pkg") \/ UnderSrc("pkg") THEN "src"
    ELSE "."

\* the inferred path, name by name: the raw name first, then the normalized
C11_NameByName ==
    IF AtRoot("Pkg") THEN "."
    ELSE IF UnderSrc("Pkg") THEN "src"
    ELSE IF AtRoot("pkg") THEN "."
    ELSE IF UnderSrc("pkg") THEN "src"
    ELSE "."

\* with proto_paths and output_path omitted, the single search path and the
\* output_path of every generator that does not override it are v
C11_AllAre(v) ==
    /\ pc \in {"walk", "generators", "files", "run"} =>
          /\ Len(paths) = 1
          /\ Text(paths[1]) = v
    /\ pc \in {"files", "run"} =>
          \A g \in 1..Len(gens) :
             LET i == g - (Len(gens) - Len(C10_Custom))
             IN  (i >= 1 /\ C10_Custom[i].output_path.k # "absent")
                 \/ PathStr(gens[g].output_path) = v

C11_Omitted == {"proto_paths", "output_path"} \cap KeysSet(config) = {}

\* C11 as stated: with proto_paths and output_path omitted, the search path
\* and the default output_path are "." if a package of the project's name is
\* at the root, otherwise "src" if one is under src, otherwise ".".
C11_RootAlwaysWins == C11_Omitted => C11_AllAre(C11_RootWins)

\* C11, amended: with proto_paths and output_path omitted, the search path
\* and the output_path of every generator that does not override it are the
\* same value, found by trying the normalized raw name and then the
\* normalized name of the project: "." if <name>/__init__.py is a file at the
\* root, otherwise "src" if src/<name>/__init__.py is a file, otherwise the
\* next name; "." when neither name matches.
C11_InferredDefault == C11_Omitted => C11_AllAre(C11_NameByName)

\* a compiler run on a project with a package of one name under src and a
\* package of the other name at the root, a custom generator inheriting
C11_Witness ==
    /\ C11_Omitted
    /\ pc = "run"
    /\ UnderSrc("Pkg")
    /\ AtRoot("pkg")
    /\ Text(paths[1]) = "src"
    /\ \E i \in 1..Len(C10_Custom) : C10_Custom[i].output_path.k = "absent"

\* the segments of a template, as sequences of tokens
RECURSIVE C12_Segments(_, _)
C12_Segments(tpl, cur) ==
    IF tpl = <<>> THEN <<cur>>
    ELSE IF Head(tpl) = "/" THEN <<cur>> \o C12_Segments(Tail(tpl), <<>>)
    ELSE C12_Segments(Tail(tpl), Append(cur, Head(tpl)))

\* the segments of a template that are more than the bare {proto_path}
RECURSIVE C12_Kept(_)
C12_Kept(segs) ==
    IF segs = <<>> THEN <<>>
    ELSE IF Head(segs) = <<PROTO_PATH>> THEN C12_Kept(Tail(segs))
    ELSE <<Head(segs)>> \o C12_Kept(Tail(segs))

C12_Has(tpl, tok) == \E n \in 1..Len(tpl) : tpl[n] = tok

\* the text of a segment without {proto_path}, for the input of stem name
RECURSIVE C12_Named(_, _)
C12_Named(seg, name) ==
    IF seg = <<>> THEN ""
    ELSE (IF Head(seg) = PROTO_NAME THEN name ELSE Head(seg))
         \o C12_Named(Tail(seg), name)

\* the derived output of input i for template k of generator g
C12_Output(i, g, k) ==
    outputs[(i - 1) * C2_Templates(gens, Len(gens)) + C2_Templates(gens, g - 1) + k]

\* C12: for an input at the root of its search path and every template that
\* contains {proto_path}, the derived output has no empty and no "." segment
\* and no separator beyond those of output_path and of the template's other
\* segments; where {proto_path} only stands as a whole segment, the output is
\* exactly output_path followed by the other segments, {proto_name} replaced
\* by the stem: {proto_path}/{proto_name}_pb2.pyi gives
\* <output_path>/<stem>_pb2.pyi.
C12_RootOfSearchPath ==
    pc \in {"files", "run"} =>
        \A i \in 1..Len(found), g \in 1..Len(gens) :
           \A k \in 1..Len(gens[g].outputs) :
              LET tpl  == gens[g].outputs[k]
                  out  == C12_Output(i, g, k)
                  kept == C12_Kept(C12_Segments(tpl, <<>>))
                  base == gens[g].output_path
                  stem == Stem(C2_Rel(i)[1])
              IN  (Len(C2_Rel(i)) = 1 /\ C12_Has(tpl, PROTO_PATH)) =>
                     /\ \A n \in 1..Len(out) : out[n] \notin {"", "."}
                     /\ Len(out) = Len(base) + Len(kept)
                     /\ SubSeq(out, 1, Len(base)) = base
                     /\ (\A s \in 1..Len(kept) : ~C12_Has(kept[s], PROTO_PATH)) =>
                           \A s \in 1..Len(kept) :
                              out[Len(base) + s] = C12_Named(kept[s], stem)

\* pkg/hello.proto at the root of the search path pkg, with the template
\* {proto_path}/{proto_name}_pb2.pyi and a template that has {proto_path}
\* inside a segment
C12_Witness ==
    /\ pc = "files"
    /\ \E i \in 1..Len(found) :
          /\ found[i].base = <<"pkg">>
          /\ found[i].proto = <<"pkg", "hello.proto">>
          /\ \E g \in 1..Len(gens) : \E k \in 1..Len(gens[g].outputs) :
                /\ gens[g].outputs[k] = PYI_TEMPLATE
                /\ C12_Output(i, g, k) = gens[g].output_path \o <<"hello_pb2.pyi">>
          /\ \E g \in 1..Len(gens) : \E k \in 1..Len(gens[g].outputs) :
                /\ gens[g].outputs[k] = TXT_TEMPLATE
                /\ Len(C12_Output(i, g, k)) = Len(gens[g].output_path) + 2

====
